---- MODULE Spec2Model ----
(***************************************************************************)
(* gen-mandarin-anki-rs (src/src/main.rs): a batch job that reads rows of  *)
(* Mandarin text, tokenises each row, spawns one task per row (word card   *)
(* or sentence card), joins all tasks and writes one Anki package.         *)
(*                                                                         *)
(* Text is modelled as a sequence of atoms.  A character of the input is   *)
(* one atom: "N", "H", "S" stand for three Mandarin characters, "*" is the *)
(* emphasis delimiter.  Phonetic text is a sequence of syllable atoms and  *)
(* separator atoms.  Rust byte offsets into a &str are modelled as offsets *)
(* into the sequence of characters (0-based, as in the source).            *)
(***************************************************************************)
EXTENDS Integers, Sequences, FiniteSets, TLC

VARIABLES
    config,      \* CONFIG.mandarin.reading: "Zhuyin" or "Pinyin"
    batch,       \* the records of input.csv, in order
    mainPc,      \* position of main: read, join, collect, package, done, panicked
    rowIdx,      \* next record main reads (1-based)
    joinIdx,     \* next join result main inspects (1-based)
    handles,     \* Vec of spawned tasks, each a record (see NewTask)
    deck,        \* notes added to the deck
    media,       \* Vec<AudioFile> of main
    files,       \* the shared output directory: set of [name, writer]
    requests,    \* every request handed to a service: [task, service, text]
    package,     \* what output.apkg holds once written
    tokInput,    \* tokeniser harness: the input string
    tokSegs,     \* tokeniser harness: the segmenter's result
    tokOut,      \* tokeniser harness: the result of tokenise_sentence
    tokPc,       \* tokeniser harness: "ready", "done" or "rendered"
    tokRendered, \* tokeniser harness: the renderings of the tokens
    wordToken,   \* reading harness: a word token with its dictionary entries
    wordReading, \* reading harness: the result of build_reading_allow_multiple
    wordPc       \* reading harness: "ready" or "done"

vars == <<config, batch, mainPc, rowIdx, joinIdx, handles, deck, media, files,
          requests, package, tokInput, tokSegs, tokOut, tokPc, tokRendered,
          wordToken, wordReading, wordPc>>

mainVars == <<config, batch, mainPc, rowIdx, joinIdx, handles, deck, media,
              files, requests, package>>

tokVars == <<tokInput, tokSegs, tokOut, tokPc, tokRendered>>

wordVars == <<wordToken, wordReading, wordPc>>

harnessVars == <<tokVars, wordVars>>

----------------------------------------------------------------------------
(* Bounds *)

\* longest input string of the tokeniser harness
MaxLen == 4

\* retries the backoff policy grants a call before it gives up
MaxRetries == 1

\* worker threads of the multi-thread runtime
NumWorkers == 2

\* most syllables in a phonetic-numbers field of the reading harness
MaxSyllables == 2

\* most dictionary entries of a word token of the reading harness
MaxEntries == 2

----------------------------------------------------------------------------
(* Generic helpers on sequences *)

RECURSIVE Concat(_)
Concat(ss) == IF ss = <<>> THEN <<>> ELSE Head(ss) \o Concat(Tail(ss))

\* itertools join: the parts with sep between consecutive parts
RECURSIVE Join(_, _)
Join(parts, sep) ==
    IF parts = <<>> THEN <<>>
    ELSE IF Len(parts) = 1 THEN Head(parts)
    ELSE Head(parts) \o sep \o Join(Tail(parts), sep)

Map(f(_), s) == [i \in 1..Len(s) |-> f(s[i])]

Contains(s, a) == \E i \in 1..Len(s) : s[i] = a

None == [some |-> FALSE, val |-> <<>>]
Some(v) == [some |-> TRUE, val |-> v]

----------------------------------------------------------------------------
(* The dictionary collaborator (crate chinese_dictionary) *)

Star == "*"

\* characters of the model's inputs (the tokeniser is also run on the strings
\* of MarkupInputs, which spell out a tag)
Chars == {"N", "H", "S", Star}

\* words the segmenter recognises; "X" stands for one that query_by_chinese
\* finds no entry for (the case process_word checks on line 561)
DictWords == {<<"N">>, <<"H">>, <<"S">>, <<"N", "H">>, <<"X">>}

Entry(traditional, english, pinyin_numbers, pinyin_marks) ==
    [traditional |-> traditional, english |-> english,
     pinyin_numbers |-> pinyin_numbers, pinyin_marks |-> pinyin_marks]

\* query_by_chinese: the entries matching a word, empty when there is none
QueryByChinese(w) ==
    CASE w = <<"N">> -> << Entry(w, <<"you">>, <<"ni3">>, <<"ni">>) >>
      [] w = <<"H">> -> << Entry(w, <<"good">>, <<"hao3">>, <<"hao">>),
                           Entry(w, <<"to like">>, <<"hao4">>, <<"hao">>) >>
      [] w = <<"S">> -> << Entry(w, <<>>, <<"shu1">>, <<"shu">>) >>
      [] w = <<"N", "H">> ->
            << Entry(w, <<"hello">>, <<"ni3", " ", "hao3">>, <<"ni", " ", "hao">>) >>
      [] OTHER -> <<>>

\* classify: ZH when the text holds a Mandarin character
Classify(text) ==
    IF \E i \in 1..Len(text) : <<text[i]>> \in DictWords THEN "ZH" ELSE "Other"

\* longest dictionary word that starts at offset i of s (0 when none)
LongestWordAt(s, i) ==
    LET lens == {n \in 1..(Len(s) - i) : SubSeq(s, i + 1, i + n) \in DictWords}
    IN IF lens = {} THEN 0 ELSE CHOOSE n \in lens : \A m \in lens : m <= n

\* tokenize: the recognised words of s in order, skipping everything else
RECURSIVE TokenizeFrom(_, _)
TokenizeFrom(s, i) ==
    IF i >= Len(s) THEN <<>>
    ELSE LET n == LongestWordAt(s, i)
         IN IF n = 0 THEN TokenizeFrom(s, i + 1)
            ELSE <<SubSeq(s, i + 1, i + n)>> \o TokenizeFrom(s, i + n)

Tokenize(s) == TokenizeFrom(s, 0)

----------------------------------------------------------------------------
(* tokenise_sentence *)

Token(text, word_entry) == [text |-> text, word_entry |-> word_entry]

\* str::find on original_sentence[from..]: offset of the first occurrence of
\* pat relative to from, -1 for Option::None
Find(s, from, pat) ==
    LET hits == {k \in 0..(Len(s) - from - Len(pat)) :
                    SubSeq(s, from + k + 1, from + k + Len(pat)) = pat}
    IN IF hits = {} THEN -1 ELSE CHOOSE k \in hits : \A m \in hits : k <= m

\* one non-Mandarin token per character of original_sentence[from..to]
NonMandarinTokens(s, from, to) ==
    [i \in 1..(to - from) |-> Token(<<s[from + i]>>, None)]

\* tokenise_sentence without lines 354-359
TrailingTokensDropped(s, current_index) == <<>>

\* the characters after the last recognised word (lines 354-359)
TrailingTokens(s, current_index) ==
    IF current_index < Len(s)
    THEN NonMandarinTokens(s, current_index, Len(s))
    ELSE <<>>

\* the loop over the segmenter's tokens (lines 340-353); panicked when find
\* returns None and the unwrap fails
RECURSIVE TokeniseLoop(_, _, _, _)
TokeniseLoop(s, tokens, current_index, token_at_index) ==
    IF tokens = <<>>
    THEN [panicked |-> FALSE,
          tokens |-> token_at_index \o TrailingTokens(s, current_index)]
    ELSE LET token == Head(tokens)
             found == Find(s, current_index, token)
         IN IF found = -1
            THEN [panicked |-> TRUE, tokens |-> token_at_index]
            ELSE LET index_of_token == found + current_index
                     gap == IF index_of_token > current_index
                            THEN NonMandarinTokens(s, current_index, index_of_token)
                            ELSE <<>>
                     value == Token(token, Some(QueryByChinese(token)))
                 IN TokeniseLoop(s, Tail(tokens), index_of_token + Len(token),
                                 token_at_index \o gap \o <<value>>)

\* tokenise_sentence, given the segmenter's result for original_sentence
TokeniseWith(original_sentence, tokens) ==
    TokeniseLoop(original_sentence, tokens, 0, <<>>)

tokenise_sentence(original_sentence) ==
    TokeniseWith(original_sentence, Tokenize(original_sentence)).tokens

----------------------------------------------------------------------------
(* Token and MandarinSentence methods *)

\* Token::build_definition: the English glosses of all entries joined by ", "
build_definition(token) ==
    IF token.word_entry.some
    THEN LET glosses == Concat(Map(LAMBDA e : e.english, token.word_entry.val))
             definition == Join(Map(LAMBDA g : <<g>>, glosses), <<", ">>)
         IN IF Len(definition) = 0 THEN None ELSE Some(definition)
    ELSE None

\* pinyin_zhuyin::encode_zhuyin on a tone-numbered syllable
EncodeZhuyin(pinyin) ==
    CASE pinyin = "ni3"  -> Some("zy_ni3")
      [] pinyin = "hao3" -> Some("zy_hao3")
      [] pinyin = "hao4" -> Some("zy_hao4")
      [] pinyin = "shu1" -> Some("zy_shu1")
      [] OTHER -> None

\* str::split_whitespace on a phonetic-numbers field
SplitWhitespace(s) == SelectSeq(s, LAMBDA a : a # " ")

\* derive_zhuyin with filter_map in place of the pass-through
derive_zhuyin_dropping_unconvertible(entry) ==
    Join(Map(LAMBDA pinyin : <<EncodeZhuyin(pinyin).val>>,
             SelectSeq(SplitWhitespace(entry.pinyin_numbers),
                       LAMBDA pinyin : EncodeZhuyin(pinyin).some)),
         <<",">>)

\* DeriveZhuyin::derive_zhuyin
derive_zhuyin(entry) ==
    Join(Map(LAMBDA pinyin : IF EncodeZhuyin(pinyin).some
                             THEN <<EncodeZhuyin(pinyin).val>>
                             ELSE <<pinyin>>,
             SplitWhitespace(entry.pinyin_numbers)),
         <<",">>)

\* Token::build_reading_allow_multiple (word_entry is Some on every call:
\* process_word returns before build_word_note when it is None)
build_reading_allow_multiple(token) ==
    LET reading == Join(Map(derive_zhuyin, token.word_entry.val), <<",">>)
    IN IF Len(reading) = 0 THEN None ELSE Some(reading)

\* build_plain_sentence without the "*" arm of its match
build_plain_sentence_keeping_stars(tokens) ==
    Concat(Map(LAMBDA token : token.text, tokens))

\* a plain rendering that drops a delimiter only at the head of the sentence
build_plain_sentence_dropping_leading_star(tokens) ==
    Concat([i \in 1..Len(tokens) |->
               IF i = 1 /\ tokens[i].text = <<Star>> THEN <<>>
               ELSE tokens[i].text])

\* MandarinSentence::build_plain_sentence
build_plain_sentence(tokens) ==
    Concat(Map(LAMBDA token : IF token.text = <<Star>> THEN <<>> ELSE token.text,
               tokens))

SpanOpen == "<span class=starred>"
SpanClose == "</span>"

\* the characters of a piece of text: those of the two tags the renderers
\* emit (lines 172-173), and the piece itself when it is one character
CharsOf(piece) ==
    CASE piece = SpanOpen ->
            <<"<", "s", "p", "a", "n", " ", "c", "l", "a", "s", "s", "=",
              "s", "t", "a", "r", "r", "e", "d", ">">>
      [] piece = SpanClose -> <<"<", "/", "s", "p", "a", "n", ">">>
      [] OTHER -> <<piece>>

\* the closure of build_note_sentence, with have_seen_star threaded through
RECURSIVE NoteSentenceFrom(_, _)
NoteSentenceFrom(tokens, have_seen_star) ==
    IF tokens = <<>> THEN <<>>
    ELSE IF Head(tokens).text = <<Star>>
         THEN <<IF have_seen_star THEN SpanClose ELSE SpanOpen>>
              \o NoteSentenceFrom(Tail(tokens), ~have_seen_star)
         ELSE Head(tokens).text \o NoteSentenceFrom(Tail(tokens), have_seen_star)

\* build_note_sentence without line 176: have_seen_star is never toggled
build_note_sentence_never_closing(tokens) ==
    Concat(Map(LAMBDA token : IF token.text = <<Star>> THEN <<SpanOpen>>
                              ELSE token.text,
               tokens))

\* MandarinSentence::build_note_sentence
build_note_sentence(tokens) == NoteSentenceFrom(tokens, FALSE)

\* the closure of build_note_reading, with have_seen_star threaded through
RECURSIVE NoteReadingFrom(_, _)
NoteReadingFrom(reading, have_seen_star) ==
    IF reading = <<>> THEN <<>>
    ELSE IF Head(reading) = Star
         THEN <<IF have_seen_star THEN SpanClose ELSE SpanOpen>>
              \o NoteReadingFrom(Tail(reading), ~have_seen_star)
         ELSE <<Head(reading)>> \o NoteReadingFrom(Tail(reading), have_seen_star)

\* build_note_reading with have_seen_star initialised to true
build_note_reading_starting_emphasized(reading) == NoteReadingFrom(reading, TRUE)

\* build_note_reading
build_note_reading(reading) == NoteReadingFrom(reading, FALSE)

----------------------------------------------------------------------------
(* Sentence-level phonetic conversion *)

\* the transliteration service: one romanized syllable per Mandarin
\* character, other characters kept, separated by spaces
RomanizeChar(c) ==
    CASE c = "N" -> "ni"
      [] c = "H" -> "hao"
      [] c = "S" -> "shu"
      [] c = "X" -> "da"
      [] OTHER -> c

Romanize(text) == Join(Map(LAMBDA c : <<RomanizeChar(c)>>, text), <<" ">>)

FullWidthComma == "<fullwidth-comma>"

\* String::replace(" ", ",")
ReplaceSpaces(s) == Map(LAMBDA a : IF a = " " THEN "," ELSE a, s)

\* String::replace of a full-width comma followed by a comma
RECURSIVE CollapseCommas(_)
CollapseCommas(s) ==
    IF Len(s) < 2 THEN s
    ELSE IF s[1] = FullWidthComma /\ s[2] = ","
         THEN <<FullWidthComma>> \o CollapseCommas(Tail(Tail(s)))
         ELSE <<Head(s)>> \o CollapseCommas(Tail(s))

\* PinyinParser::parse panics on a syllable it cannot delimit: "shu" stands
\* for a syllable ending in u that lacks the apostrophe, "shu'" for the same
\* syllable with it
ParserPanics(s) == Contains(s, "shu")

\* pinyin_zhuyin::pinyin_to_zhuyin on one parsed token
PinyinToZhuyin(pinyin_token) ==
    CASE pinyin_token = "ni"   -> Some("zy_ni")
      [] pinyin_token = "hao"  -> Some("zy_hao")
      [] pinyin_token = "shu'" -> Some("zy_shu")
      [] pinyin_token = "da"   -> Some("zy_da")
      [] OTHER -> None

\* convert_pinyin_to_zhuyin: Result<String, _>, Err when the parser panics
convert_pinyin_to_zhuyin(pinyin_reading) ==
    LET normalised == CollapseCommas(ReplaceSpaces(pinyin_reading))
    IN IF ParserPanics(normalised)
       THEN [ok |-> FALSE, val |-> <<>>]
       ELSE [ok |-> TRUE,
             val |-> Map(LAMBDA t : IF PinyinToZhuyin(t).some
                                    THEN PinyinToZhuyin(t).val ELSE t,
                         normalised)]

\* what the operator may type at the prompt, which starts out holding the
\* romanized text: the text with the apostrophes added, or the text as it was
AddApostrophes(s) == Map(LAMBDA a : IF a = "shu" THEN "shu'" ELSE a, s)

OperatorLines(pinyin_reading) == {AddApostrophes(pinyin_reading), pinyin_reading}

----------------------------------------------------------------------------
(* Audio files *)

\* url_escape::encode_component: the UTF-8 bytes of a character outside the
\* unreserved set, each as %XX; every Mandarin character is outside it, the
\* one "X" stands for included, and '*' is inside it and kept as it is
EncodeChar(c) ==
    CASE c = "N" -> <<"%", "E", "4", "%", "B", "D", "%", "A", "0">>
      [] c = "H" -> <<"%", "E", "5", "%", "A", "5", "%", "B", "D">>
      [] c = "S" -> <<"%", "E", "6", "%", "9", "B", "%", "B", "8">>
      [] c = "X" -> <<"%", "E", "9", "%", "B", "E", "%", "9", "8">>
      [] c = Star -> <<Star>>

EncodeComponent(text) == Concat(Map(EncodeChar, text))

\* width and precision of the format spec {:-<10.10}
PrefixWidth == 10

\* format!("{:-<10.10}", encoded_text): cut to 10 characters, padded with '-'
FormatPrefix(encoded_text) ==
    [i \in 1..PrefixWidth |->
        IF i <= Len(encoded_text) THEN encoded_text[i] ELSE "-"]

\* Alphanumeric.sample_string(rng, 5): two of the 62^5 salts
Salts == {"aaaaa", "bbbbb"}

\* the file name get_tts writes for text with the salt drawn
AudioFileName(text, salt) ==
    FormatPrefix(EncodeComponent(text)) \o <<salt>> \o <<".mp3">>

\* AudioFile::build_note_field
build_note_field(file) == <<"[sound:">> \o file \o <<"]">>

----------------------------------------------------------------------------
(* The services *)

\* the translation service: some English text for the Mandarin text
Translate(mandarin_text) == <<"translation of ">> \o mandarin_text

\* the related-words service: the rows of its CSV answer, split at the
\* commas: a header row first, a row with a space after its comma, a row
\* with whitespace around both columns and a row of one column
SuggestRows(word) ==
    << << <<"word">>, <<"translation">> >>,
       << <<"H">>, <<" ", "good">> >>,
       << <<" ", "N", " ">>, <<" ", "you", " ">> >>,
       << <<"N", "H">> >> >>

SimilarWord(word, translation) == [word |-> word, translation |-> translation]

\* str::trim: the text without the whitespace at its start and at its end
RECURSIVE Trim(_)
Trim(text) ==
    IF text = <<>> THEN <<>>
    ELSE IF Head(text) = " " THEN Trim(Tail(text))
    ELSE IF text[Len(text)] = " " THEN Trim(SubSeq(text, 1, Len(text) - 1))
    ELSE text

\* get_similar_words: the rows with two columns or more whose first column is
\* Mandarin, both columns trimmed (line 548)
ParseSimilarWords(rows) ==
    Map(LAMBDA row : SimilarWord(Trim(row[1]), Trim(row[2])),
        SelectSeq(rows, LAMBDA row : Len(row) >= 2 /\ Classify(row[1]) = "ZH"))

\* SimilarWord::build_string
build_string(similar, reading) ==
    LET query_result == QueryByChinese(similar.word)
        whole == Len(query_result[1].traditional) = Len(similar.word)
        reading_str ==
            IF reading = "Zhuyin"
            THEN IF whole THEN derive_zhuyin(query_result[1])
                 ELSE Join(Map(derive_zhuyin, query_result), <<",">>)
            ELSE IF whole THEN query_result[1].pinyin_marks
                 ELSE Join(Map(LAMBDA e : e.pinyin_marks, query_result), <<" ">>)
    IN similar.word \o <<", ">> \o reading_str \o <<", ">> \o similar.translation

----------------------------------------------------------------------------
(* The batch *)

Row(hanzi, definition) == [hanzi |-> hanzi, definition |-> definition]

\* the input files of the model: a word and a starred sentence with the same
\* plain text; the same word twice and a sentence; a word with an empty second column and a word without glosses;
\* two sentences whose romanization needs the operator and whose encoded
\* texts start with the same 10 characters; rows that start no card; rows
\* without any matched entry, on both paths, before a word
Batches ==
    { << Row(<<"N", "H">>, None), Row(<<"N", Star, "H", Star>>, None) >>,
      << Row(<<"H">>, None), Row(<<"H">>, None), Row(<<"S", Star>>, None) >>,
      << Row(<<"N", "H">>, Some(<<>>)), Row(<<"S">>, None) >>,
      << Row(<<"N", "S">>, None),
         Row(<<"N", "H", "S">>, Some(<<"hello, book">>)) >>,
      << Row(<<Star>>, None), Row(<<>>, None), Row(<<"H">>, Some(<<"fine">>)) >>,
      << Row(<<Star, Star>>, None), Row(<<"X">>, Some(<<"unknown">>)),
         Row(<<>>, Some(<<"nothing">>)), Row(<<"X", Star>>, None),
         Row(<<"N">>, None) >> }

Readings == {"Zhuyin", "Pinyin"}

NoNote == [kind |-> "none", hanzi |-> <<>>, definition |-> <<>>, audio |-> <<>>,
           reading |-> <<>>, similar |-> <<>>]

\* a task as tokio::spawn creates it
NewTask(kind, hanzi, tokens, definition) ==
    [kind |-> kind, hanzi |-> hanzi, tokens |-> tokens, override |-> definition,
     pc |-> "start", retries |-> 0, definition |-> <<>>,
     pinyin |-> <<>>, zhuyin |-> <<>>, audio |-> None,
     prompts |-> 0, converts |-> 0, firstOk |-> FALSE, failed |-> "",
     result |-> "pending", note |-> NoNote]

Tasks == DOMAIN handles

Finished(t) == handles[t].pc \in {"done", "panicked"}

\* a blocking readline keeps its worker thread; every other step of a task is
\* polled on a free one
InPrompt == {t \in Tasks : handles[t].pc = "prompt"}

FreeWorker == Cardinality(InPrompt) < NumWorkers

Request(t, service, text) == [task |-> t, service |-> service, text |-> text]

\* the task panicked: its JoinHandle will yield Err(JoinError)
Panic(t, cause) ==
    handles' = [handles EXCEPT ![t].pc = "panicked", ![t].failed = cause,
                               ![t].result = "panic"]

NotRendered == [note |-> <<>>, plain |-> <<>>, reading |-> <<>>]

TokIdle ==
    /\ tokInput = <<>>
    /\ tokSegs = <<>>
    /\ tokOut = [panicked |-> FALSE, tokens |-> <<>>]
    /\ tokPc = "idle"
    /\ tokRendered = NotRendered

WordIdle ==
    /\ wordToken = Token(<<>>, None)
    /\ wordReading = None
    /\ wordPc = "idle"

MainIdle ==
    /\ config = "Zhuyin"
    /\ batch = <<>>
    /\ mainPc = "idle"
    /\ rowIdx = 1
    /\ joinIdx = 1
    /\ handles = <<>>
    /\ deck = <<>>
    /\ media = <<>>
    /\ files = {}
    /\ requests = {}
    /\ package = [written |-> FALSE, notes |-> <<>>, media |-> <<>>]

Init ==
    /\ config \in Readings
    /\ batch \in Batches
    /\ mainPc = "read"
    /\ rowIdx = 1
    /\ joinIdx = 1
    /\ handles = <<>>
    /\ deck = <<>>
    /\ media = <<>>
    /\ files = {}
    /\ requests = {}
    /\ package = [written |-> FALSE, notes |-> <<>>, media |-> <<>>]
    /\ TokIdle
    /\ WordIdle

----------------------------------------------------------------------------
(* main *)

\* a match that takes the arm of the word for one or two tokens
RowKindPairAsWord(tokenised_sentence) ==
    IF Len(tokenised_sentence) \in {1, 2} THEN "word"
    ELSE IF Len(tokenised_sentence) >= 3 THEN "sentence"
    ELSE "none"

\* the match on tokenised_sentence.len() (lines 682-701)
RowKind(tokenised_sentence) ==
    IF Len(tokenised_sentence) = 1 THEN "word"
    ELSE IF Len(tokenised_sentence) >= 2 THEN "sentence"
    ELSE "none"

\* one iteration of the loop over the records (lines 677-702)
MainReadRow ==
    /\ mainPc = "read"
    /\ rowIdx <= Len(batch)
    /\ LET row == batch[rowIdx]
           tokenised_sentence == tokenise_sentence(row.hanzi)
           kind == RowKind(tokenised_sentence)
       IN handles' =
            IF kind = "none" THEN handles
            ELSE Append(handles, NewTask(kind, row.hanzi, tokenised_sentence,
                                         row.definition))
    /\ rowIdx' = rowIdx + 1
    /\ UNCHANGED <<config, batch, mainPc, joinIdx, deck, media, files, requests,
                   package>>
    /\ UNCHANGED harnessVars

\* a join that resolves as soon as the first handle has resolved
JoinFirstReady == Tasks # {} => Finished(1)

\* join_all(handles).await resolves when every handle has resolved
JoinAllReady == \A t \in Tasks : Finished(t)

MainJoin ==
    /\ mainPc = "read"
    /\ rowIdx > Len(batch)
    /\ JoinAllReady
    /\ mainPc' = "collect"
    /\ joinIdx' = 1
    /\ UNCHANGED <<config, batch, rowIdx, handles, deck, media, files, requests,
                   package>>
    /\ UNCHANGED harnessVars

\* one iteration of the loop over the join results (lines 704-711): the
\* unwrap of an Err(JoinError) panics main
MainCollect ==
    /\ mainPc = "collect"
    /\ joinIdx <= Len(handles)
    /\ LET task == handles[joinIdx]
       IN CASE task.result = "panic" ->
                 /\ mainPc' = "panicked"
                 /\ UNCHANGED <<joinIdx, deck, media>>
            [] task.result = "some" ->
                 /\ deck' = Append(deck, task.note)
                 /\ media' = Append(media, task.audio.val)
                 /\ joinIdx' = joinIdx + 1
                 /\ UNCHANGED mainPc
            [] OTHER ->
                 /\ joinIdx' = joinIdx + 1
                 /\ UNCHANGED <<mainPc, deck, media>>
    /\ UNCHANGED <<config, batch, rowIdx, handles, files, requests, package>>
    /\ UNCHANGED harnessVars

\* Package::new and write_to_file (lines 713-714)
MainPackage ==
    /\ mainPc = "collect"
    /\ joinIdx > Len(handles)
    /\ package' = [written |-> TRUE, notes |-> deck, media |-> media]
    /\ mainPc' = "done"
    /\ UNCHANGED <<config, batch, rowIdx, joinIdx, handles, deck, media, files,
                   requests>>
    /\ UNCHANGED harnessVars

----------------------------------------------------------------------------
(* The row tasks: process_word and process_sentence *)

\* the text each call of a task hands to its service
TranslateText(task) ==
    IF task.kind = "word" THEN task.tokens[1].text
    ELSE build_plain_sentence(task.tokens)

TransliterateText(task) == task.hanzi

TtsText(task) ==
    IF task.kind = "word" THEN task.tokens[1].text
    ELSE build_plain_sentence(task.tokens)

\* process_word without the check of an empty entry list (line 561)
WordUnrecognisedOnlyWhenNone(task) == ~task.tokens[1].word_entry.some

\* process_word, lines 559-570: the sole token has no entry
WordUnrecognised(task) ==
    ~task.tokens[1].word_entry.some \/ Len(task.tokens[1].word_entry.val) = 0

\* process_sentence, line 610: no token has a matched entry
SentenceUnrecognised(task) ==
    ~\E i \in 1..Len(task.tokens) :
        /\ task.tokens[i].word_entry.some
        /\ Len(task.tokens[i].word_entry.val) > 0

\* the early return of either pipeline: Option::None, no call made
TaskSkip(t) ==
    /\ t \in Tasks
    /\ FreeWorker
    /\ handles[t].pc = "start"
    /\ IF handles[t].kind = "word" THEN WordUnrecognised(handles[t])
       ELSE SentenceUnrecognised(handles[t])
    /\ handles' = [handles EXCEPT ![t].pc = "done", ![t].result = "none"]
    /\ UNCHANGED <<config, batch, mainPc, rowIdx, joinIdx, deck, media, files,
                   requests, package>>
    /\ UNCHANGED harnessVars

\* process_word up to its first call (lines 572-584)
WordStart(t) ==
    /\ t \in Tasks
    /\ FreeWorker
    /\ handles[t].pc = "start"
    /\ handles[t].kind = "word"
    /\ ~WordUnrecognised(handles[t])
    /\ LET task == handles[t]
           built == build_definition(task.tokens[1])
       IN IF task.override.some
          THEN /\ handles' = [handles EXCEPT ![t].definition = task.override.val,
                                             ![t].pc = "tts"]
               /\ requests' = requests \cup {Request(t, "tts", TtsText(task))}
          ELSE IF built.some
          THEN /\ handles' = [handles EXCEPT ![t].definition = built.val,
                                             ![t].pc = "tts"]
               /\ requests' = requests \cup {Request(t, "tts", TtsText(task))}
          ELSE /\ handles' = [handles EXCEPT ![t].pc = "translate"]
               /\ requests' = requests
                    \cup {Request(t, "translate", TranslateText(task))}
    /\ UNCHANGED <<config, batch, mainPc, rowIdx, joinIdx, deck, media, files,
                   package>>
    /\ UNCHANGED harnessVars

\* process_sentence up to its first call (lines 615-629)
SentenceStart(t) ==
    /\ t \in Tasks
    /\ FreeWorker
    /\ handles[t].pc = "start"
    /\ handles[t].kind = "sentence"
    /\ ~SentenceUnrecognised(handles[t])
    /\ LET task == handles[t]
       IN IF task.override.some
          THEN /\ handles' = [handles EXCEPT ![t].definition = task.override.val,
                                             ![t].pc = "translit"]
               /\ requests' = requests
                    \cup {Request(t, "transliterate", TransliterateText(task))}
          ELSE /\ handles' = [handles EXCEPT ![t].pc = "translate"]
               /\ requests' = requests
                    \cup {Request(t, "translate", TranslateText(task))}
    /\ UNCHANGED <<config, batch, mainPc, rowIdx, joinIdx, deck, media, files,
                   package>>
    /\ UNCHANGED harnessVars

\* the calls made under retry_policy().retry(...)
NetPcs == {"translate", "translit", "tts", "similar"}

\* error_for_status yields Err and the policy grants another attempt
NetRetry(t) ==
    /\ t \in Tasks
    /\ FreeWorker
    /\ handles[t].pc \in NetPcs
    /\ handles[t].retries < MaxRetries
    /\ handles' = [handles EXCEPT ![t].retries = @ + 1]
    /\ UNCHANGED <<config, batch, mainPc, rowIdx, joinIdx, deck, media, files,
                   requests, package>>
    /\ UNCHANGED harnessVars

\* error_for_status yields Err and the policy is exhausted: retry returns
\* Err and the unwrap after .await panics
NetExhausted(t) ==
    /\ t \in Tasks
    /\ FreeWorker
    /\ handles[t].pc \in NetPcs
    /\ handles[t].retries = MaxRetries
    /\ Panic(t, "exhausted")
    /\ UNCHANGED <<config, batch, mainPc, rowIdx, joinIdx, deck, media, files,
                   requests, package>>
    /\ UNCHANGED harnessVars

\* send() yields Err (no response): res.unwrap() inside the retried closure
\* panics
NetNoResponse(t) ==
    /\ t \in Tasks
    /\ FreeWorker
    /\ handles[t].pc \in NetPcs
    /\ Panic(t, "no response")
    /\ UNCHANGED <<config, batch, mainPc, rowIdx, joinIdx, deck, media, files,
                   requests, package>>
    /\ UNCHANGED harnessVars

\* get_translation returns (lines 423-428), and the caller goes on to its
\* next call
TranslateOk(t) ==
    /\ t \in Tasks
    /\ FreeWorker
    /\ handles[t].pc = "translate"
    /\ LET task == handles[t]
           english_text == Translate(TranslateText(task))
       IN IF task.kind = "word"
          THEN /\ handles' = [handles EXCEPT ![t].definition = english_text,
                                             ![t].retries = 0, ![t].pc = "tts"]
               /\ requests' = requests \cup {Request(t, "tts", TtsText(task))}
          ELSE /\ handles' = [handles EXCEPT ![t].definition = english_text,
                                             ![t].retries = 0,
                                             ![t].pc = "translit"]
               /\ requests' = requests
                    \cup {Request(t, "transliterate", TransliterateText(task))}
    /\ UNCHANGED <<config, batch, mainPc, rowIdx, joinIdx, deck, media, files,
                   package>>
    /\ UNCHANGED harnessVars

\* a match whose Ok arm opens the prompt too
NeedsPromptAlways(zhuyin_reading) == TRUE

\* the match of get_transliteration (line 452): the Err arm opens the prompt
NeedsPrompt(zhuyin_reading) == ~zhuyin_reading.ok

\* get_transliteration from the response to the match (lines 442-460): the
\* first conversion, then either the return or the blocking readline
TransliterateOk(t) ==
    /\ t \in Tasks
    /\ FreeWorker
    /\ handles[t].pc = "translit"
    /\ LET task == handles[t]
           pinyin_reading == Romanize(TransliterateText(task))
           zhuyin_reading == convert_pinyin_to_zhuyin(pinyin_reading)
       IN IF NeedsPrompt(zhuyin_reading)
          THEN /\ handles' = [handles EXCEPT ![t].pinyin = pinyin_reading,
                                             ![t].converts = 1,
                                             ![t].firstOk = zhuyin_reading.ok,
                                             ![t].prompts = @ + 1,
                                             ![t].retries = 0,
                                             ![t].pc = "prompt"]
               /\ UNCHANGED requests
          ELSE /\ handles' = [handles EXCEPT ![t].pinyin = pinyin_reading,
                                             ![t].zhuyin = zhuyin_reading.val,
                                             ![t].converts = 1,
                                             ![t].firstOk = zhuyin_reading.ok,
                                             ![t].retries = 0,
                                             ![t].pc = "tts"]
               /\ requests' = requests \cup {Request(t, "tts", TtsText(task))}
    /\ UNCHANGED <<config, batch, mainPc, rowIdx, joinIdx, deck, media, files,
                   package>>
    /\ UNCHANGED harnessVars

\* where the task goes after the conversion of the operator's line (line
\* 462): on, or into the panic of the unwrap
AfterRetry(zhuyin_reading) == IF zhuyin_reading.ok THEN "tts" ELSE "panicked"

\* readline_with_initial returns Err (end of input or interrupt at the
\* prompt): the unwrap of line 460 panics before any second conversion
PromptAbort(t) ==
    /\ t \in Tasks
    /\ handles[t].pc = "prompt"
    /\ Panic(t, "readline")
    /\ UNCHANGED <<config, batch, mainPc, rowIdx, joinIdx, deck, media, files,
                   requests, package>>
    /\ UNCHANGED harnessVars

\* readline_with_initial returns the operator's line, which is converted
\* (lines 460-462)
PromptReturn(t) ==
    /\ t \in Tasks
    /\ handles[t].pc = "prompt"
    /\ \E line \in OperatorLines(handles[t].pinyin) :
        LET task == handles[t]
            zhuyin_reading == convert_pinyin_to_zhuyin(line)
            next == AfterRetry(zhuyin_reading)
        IN IF next = "panicked"
           THEN /\ handles' = [handles EXCEPT ![t].converts = @ + 1,
                                              ![t].pc = "panicked",
                                              ![t].failed = "conversion",
                                              ![t].result = "panic"]
                /\ UNCHANGED requests
           ELSE /\ handles' = [handles EXCEPT ![t].converts = @ + 1,
                                              ![t].zhuyin = zhuyin_reading.val,
                                              ![t].pc = next]
                /\ requests' = requests
                     \cup (IF next = "tts"
                           THEN {Request(t, "tts", TtsText(task))} ELSE {})
    /\ UNCHANGED <<config, batch, mainPc, rowIdx, joinIdx, deck, media, files,
                   package>>
    /\ UNCHANGED harnessVars

WordNote(token, definition, audio, reading, similar_words_string) ==
    [kind |-> "word", hanzi |-> token.text, definition |-> definition,
     audio |-> build_note_field(audio), reading |-> reading,
     similar |-> similar_words_string]

SentenceNote(note_sentence, definition, audio, note_reading) ==
    [kind |-> "sentence", hanzi |-> note_sentence, definition |-> definition,
     audio |-> build_note_field(audio), reading |-> note_reading,
     similar |-> <<>>]

\* process_sentence, lines 630-633: the reading of the configured notation
SentenceReading(task, reading) ==
    IF reading = "Zhuyin" THEN build_note_reading(task.zhuyin)
    ELSE build_note_reading(task.pinyin)

\* get_tts returns (lines 395-409): the salt is drawn and the file written;
\* a sentence task then builds its note and ends (lines 637-640), a word task
\* goes on to the related words (line 585)
TtsOk(t) ==
    /\ t \in Tasks
    /\ FreeWorker
    /\ handles[t].pc = "tts"
    /\ \E salt \in Salts :
        LET task == handles[t]
            file == AudioFileName(TtsText(task), salt)
        IN /\ files' = files \cup {[name |-> file, writer |-> t]}
           /\ IF task.kind = "word"
              THEN /\ handles' = [handles EXCEPT ![t].audio = Some(file),
                                                 ![t].retries = 0,
                                                 ![t].pc = "similar"]
                   /\ requests' = requests
                        \cup {Request(t, "similar", task.tokens[1].text)}
              ELSE /\ handles' =
                        [handles EXCEPT
                           ![t].audio = Some(file),
                           ![t].retries = 0,
                           ![t].pc = "done",
                           ![t].result = "some",
                           ![t].note =
                              SentenceNote(build_note_sentence(task.tokens),
                                           task.definition, file,
                                           SentenceReading(task, config))]
                   /\ UNCHANGED requests
    /\ UNCHANGED <<config, batch, mainPc, rowIdx, joinIdx, deck, media, package>>
    /\ UNCHANGED harnessVars

\* get_similar_words returns (lines 535-554) and the word note is built
\* (lines 586-592); the unwrap of a missing reading panics
SimilarOk(t) ==
    /\ t \in Tasks
    /\ FreeWorker
    /\ handles[t].pc = "similar"
    /\ LET task == handles[t]
           token == task.tokens[1]
           similar_words == ParseSimilarWords(SuggestRows(token.text))
           similar_words_string ==
               Join(Map(LAMBDA w : build_string(w, config), similar_words),
                    <<"<br>">>)
           reading == build_reading_allow_multiple(token)
       IN IF reading.some
          THEN handles' = [handles EXCEPT
                             ![t].retries = 0,
                             ![t].pc = "done",
                             ![t].result = "some",
                             ![t].note = WordNote(token, task.definition,
                                                  task.audio.val, reading.val,
                                                  similar_words_string)]
          ELSE Panic(t, "reading")
    /\ UNCHANGED <<config, batch, mainPc, rowIdx, joinIdx, deck, media, files,
                   requests, package>>
    /\ UNCHANGED harnessVars

Next ==
    \/ MainReadRow
    \/ MainJoin
    \/ MainCollect
    \/ MainPackage
    \/ \E t \in Tasks : TaskSkip(t)
    \/ \E t \in Tasks : WordStart(t)
    \/ \E t \in Tasks : SentenceStart(t)
    \/ \E t \in Tasks : NetRetry(t)
    \/ \E t \in Tasks : NetExhausted(t)
    \/ \E t \in Tasks : NetNoResponse(t)
    \/ \E t \in Tasks : TranslateOk(t)
    \/ \E t \in Tasks : TransliterateOk(t)
    \/ \E t \in Tasks : PromptReturn(t)
    \/ \E t \in Tasks : PromptAbort(t)
    \/ \E t \in Tasks : TtsOk(t)
    \/ \E t \in Tasks : SimilarOk(t)

Spec == Init /\ [][Next]_vars

----------------------------------------------------------------------------
(* tokenise_sentence on its own: every input string of up to MaxLen         *)
(* characters, with every list of words a segmenter can hand back for it   *)

RECURSIVE StringsUpTo(_)
StringsUpTo(n) ==
    IF n = 0 THEN {<<>>}
    ELSE LET shorter == StringsUpTo(n - 1)
         IN shorter \cup {Append(s, c) : s \in shorter, c \in Chars}

\* a labelling of the characters of a string is a segmentation when every
\* "cont" continues a word
IsLabelling(f, n) ==
    \A i \in 1..n : f[i] = "cont" => (i > 1 /\ f[i - 1] \in {"start", "cont"})

\* the words a labelling marks, in order
RECURSIVE WordsOf(_, _, _)
WordsOf(s, f, i) ==
    IF i > Len(s) THEN <<>>
    ELSE IF f[i] = "start"
         THEN LET last == CHOOSE j \in i..Len(s) :
                             /\ \A k \in (i + 1)..j : f[k] = "cont"
                             /\ (j = Len(s) \/ f[j + 1] # "cont")
              IN <<SubSeq(s, i, last)>> \o WordsOf(s, f, last + 1)
         ELSE WordsOf(s, f, i + 1)

\* every ordered list of non-empty, non-overlapping substrings of s
Segmentations(s) ==
    {WordsOf(s, f, 1) :
        f \in {g \in [1..Len(s) -> {"gap", "start", "cont"}] :
                  IsLabelling(g, Len(s))}}

\* input strings that spell out the closing tag, character by character:
\* as it is, before a word, and with a delimiter inside it
MarkupInputs ==
    { CharsOf(SpanClose),
      CharsOf(SpanClose) \o <<"N">>,
      <<"<", "/", "s", "p", Star, "a", "n", ">">> }

TokInit ==
    /\ tokInput \in StringsUpTo(MaxLen) \cup MarkupInputs
    /\ tokSegs \in Segmentations(tokInput)
    /\ tokOut = [panicked |-> FALSE, tokens |-> <<>>]
    /\ tokPc = "ready"
    /\ tokRendered = NotRendered
    /\ MainIdle
    /\ WordIdle

\* main, line 681, on one record
TokeniseCall ==
    /\ tokPc = "ready"
    /\ tokOut' = TokeniseWith(tokInput, tokSegs)
    /\ tokPc' = "done"
    /\ UNCHANGED <<tokInput, tokSegs, tokRendered>>
    /\ UNCHANGED mainVars
    /\ UNCHANGED wordVars

\* the renderers: build_plain_sentence and build_note_sentence on the tokens
\* (process_sentence, lines 619-622), build_note_reading on the string
\* (lines 630-633)
RenderCall ==
    /\ tokPc = "done"
    /\ ~tokOut.panicked
    /\ tokRendered' = [note |-> build_note_sentence(tokOut.tokens),
                       plain |-> build_plain_sentence(tokOut.tokens),
                       reading |-> build_note_reading(tokInput)]
    /\ tokPc' = "rendered"
    /\ UNCHANGED <<tokInput, tokSegs, tokOut>>
    /\ UNCHANGED mainVars
    /\ UNCHANGED wordVars

TokNext ==
    \/ TokeniseCall
    \/ RenderCall

SpecTok == TokInit /\ [][TokNext]_vars

----------------------------------------------------------------------------
(* Token::build_reading_allow_multiple on its own: every word token with    *)
(* up to MaxEntries entries of up to MaxSyllables syllables each            *)

\* tone-numbered syllables: one with a symbol-notation form, and the
\* dictionary's placeholder for an unknown pronunciation, which has none
Syllables == {"ni3", "xx5"}

RECURSIVE SyllableLists(_)
SyllableLists(n) ==
    IF n = 0 THEN {<<>>}
    ELSE LET shorter == SyllableLists(n - 1)
         IN shorter \cup {Append(l, syl) : l \in shorter, syl \in Syllables}

\* a phonetic-numbers field: the syllables separated by a space, as the
\* dictionary writes it, or with whitespace around it as well
PinyinFields ==
    LET spaced(l) == Join([i \in 1..Len(l) |-> <<l[i]>>], <<" ">>)
    IN UNION {{spaced(l), <<" ">> \o spaced(l) \o <<" ">>} :
                 l \in SyllableLists(MaxSyllables) \ {<<>>}}

RECURSIVE EntryLists(_)
EntryLists(n) ==
    IF n = 0 THEN {<<>>}
    ELSE LET shorter == EntryLists(n - 1)
         IN shorter \cup
            {Append(l, Entry(<<"H">>, <<>>, f, <<>>)) :
                l \in shorter, f \in PinyinFields}

\* word tokens as tokenise_sentence builds them (lines 349-350), with at
\* least one matched entry
WordTokens ==
    {Token(<<"H">>, Some(l)) : l \in EntryLists(MaxEntries) \ {<<>>}}

WordInit ==
    /\ wordToken \in WordTokens
    /\ wordReading = None
    /\ wordPc = "ready"
    /\ MainIdle
    /\ TokIdle

\* build_word_note, line 598, on one token
ReadingCall ==
    /\ wordPc = "ready"
    /\ wordReading' = build_reading_allow_multiple(wordToken)
    /\ wordPc' = "done"
    /\ UNCHANGED wordToken
    /\ UNCHANGED mainVars
    /\ UNCHANGED tokVars

WordNext == ReadingCall

SpecWord == WordInit /\ [][WordNext]_vars

----------------------------------------------------------------------------
(* Properties *)

TokenTexts(tokens) == Concat(Map(LAMBDA token : token.text, tokens))

IsWordToken(token) == token.word_entry.some

\* C1: for every input string and every segmenter result made of substrings
\* that occur in the input in order, tokenise_sentence does not fail and the
\* texts of its tokens, concatenated in order, are the input: nothing is
\* lost, duplicated or reordered, between words or after the last one.
C1_LosslessPartition ==
    tokPc = "done" =>
        /\ ~tokOut.panicked
        /\ TokenTexts(tokOut.tokens) = tokInput

\* a word, a character between words, a second word and a trailing character
C1_Witness ==
    /\ tokPc = "done"
    /\ Len(tokSegs) = 2
    /\ Len(tokOut.tokens) = 4
    /\ IsWordToken(tokOut.tokens[1])
    /\ ~IsWordToken(tokOut.tokens[2])
    /\ IsWordToken(tokOut.tokens[3])
    /\ ~IsWordToken(tokOut.tokens[4])

MainEnded == mainPc \in {"done", "panicked"}

RECURSIVE NotesOf(_)
NotesOf(tasks) ==
    IF tasks = <<>> THEN <<>>
    ELSE (IF Head(tasks).result = "some" THEN <<Head(tasks).note>> ELSE <<>>)
         \o NotesOf(Tail(tasks))

\* C2: a panic inside one row's task does not abort the batch: when main
\* ends, every task has run to its end, and the package has been written
\* with the cards of all the rows that succeeded.
C2_PanicIsolated ==
    MainEnded =>
        /\ \A t \in Tasks : Finished(t)
        /\ package.written
        /\ package.notes = NotesOf(handles)

\* C3: at most one task at a time is inside the manual-correction prompt.
C3_PromptExclusive == Cardinality(InPrompt) <= 1

\* C4: no two tasks of a batch write the same file name in the shared
\* output directory.
C4_DistinctFileNames ==
    \A f \in files : \A g \in files : f.writer # g.writer => f.name # g.name

\* C5: the deck and the media list hold something only once every spawned
\* task has finished and main has passed the join, and the package is
\* written only after every join result has been inspected.
C5_JoinBarrier ==
    /\ (deck # <<>> \/ media # <<>> \/ package.written) =>
          /\ rowIdx > Len(batch)
          /\ \A t \in Tasks : Finished(t)
    /\ package.written => joinIdx > Len(handles)

\* two tasks were spawned and finished, both cards were gathered and the
\* package was written
C5_Witness ==
    /\ package.written
    /\ Len(handles) >= 2
    /\ Len(package.notes) >= 2
    /\ Len(package.media) >= 2

SentenceRequests ==
    {r \in requests : handles[r.task].kind = "sentence"}

\* C6 as stated: translation, speech synthesis and transliteration never
\* receive a text with the delimiter while a sentence card is built.
C6_NoServiceSeesStar ==
    \A r \in SentenceRequests :
        r.service \in {"translate", "tts", "transliterate"} =>
            ~Contains(r.text, Star)

\* C6, amended: translation and speech synthesis never receive a text with
\* the delimiter while a sentence card is built; transliteration receives
\* the raw sentence as it stands in the row, delimiters included.
C6_PlainToTranslateAndTts ==
    \A r \in SentenceRequests :
        /\ r.service \in {"translate", "tts"} => ~Contains(r.text, Star)
        /\ r.service = "transliterate" => r.text = handles[r.task].hanzi

\* a starred sentence has been handed to all three services
C6_Witness ==
    \E t \in Tasks :
        /\ handles[t].kind = "sentence"
        /\ Contains(handles[t].hanzi, Star)
        /\ \A service \in {"translate", "tts", "transliterate"} :
              \E r \in requests : r.task = t /\ r.service = service

\* C7: the card of a word row with a dictionary hit has a non-empty
\* definition, a non-empty reading and the audio field [sound:<file>] of the
\* file its task wrote, also when the second column is present and empty.
C7_WordCardComplete ==
    \A t \in Tasks :
        (handles[t].kind = "word" /\ handles[t].result = "some") =>
            /\ handles[t].note.definition # <<>>
            /\ handles[t].note.reading # <<>>
            /\ \E f \in files :
                  /\ f.writer = t
                  /\ handles[t].note.audio = <<"[sound:">> \o f.name \o <<"]">>

NetFailures == {"no response", "exhausted"}

\* C8: a task fails on a network call only once the retry policy is
\* exhausted, whatever the kind of failure, and such a failure does not
\* fail main.
C8_RetriedUntilExhausted ==
    /\ \A t \in Tasks :
          handles[t].failed \in NetFailures =>
              /\ handles[t].failed = "exhausted"
              /\ handles[t].retries = MaxRetries
    /\ mainPc = "panicked" => handles[joinIdx].failed \notin NetFailures

\* C9 as stated: in a sentence task the prompt is opened exactly when the
\* first conversion fails, at most once, and is followed by exactly one more
\* conversion, on the operator's line; the task yields a card only when
\* that conversion succeeds, and fails without a card when it does not.
C9_PromptOnceOnFailure ==
    \A t \in Tasks :
        LET task == handles[t]
        IN /\ task.prompts <= 1
           /\ task.converts = 0 => task.prompts = 0
           /\ task.converts >= 1 => (task.prompts = 1 <=> ~task.firstOk)
           /\ task.converts >= 1 =>
                 task.firstOk = convert_pinyin_to_zhuyin(task.pinyin).ok
           /\ task.pc = "prompt" => (task.prompts = 1 /\ task.converts = 1)
           /\ (task.prompts = 1 /\ task.pc # "prompt") => task.converts = 2
           /\ task.prompts = 0 => task.converts <= 1
           /\ (task.prompts = 1 /\ task.result = "some") =>
                 \E line \in OperatorLines(task.pinyin) :
                     /\ convert_pinyin_to_zhuyin(line).ok
                     /\ task.zhuyin = convert_pinyin_to_zhuyin(line).val
           /\ task.failed = "conversion" =>
                 /\ task.prompts = 1
                 /\ task.pc = "panicked"
                 /\ task.result = "panic"
                 /\ task.note = NoNote

\* C9: in a sentence task the prompt is opened exactly when the first
\* conversion fails, at most once. When the operator enters a line it is
\* followed by exactly one more conversion, on that line: the task yields a
\* card only when that conversion succeeds, and fails without a card when it
\* does not. When the prompt ends without a line the task fails at once,
\* without a second conversion and without a card.
C9_PromptOnceThenRetryOrAbort ==
    \A t \in Tasks :
        LET task == handles[t]
        IN /\ task.prompts <= 1
           /\ task.converts = 0 => task.prompts = 0
           /\ task.converts >= 1 => (task.prompts = 1 <=> ~task.firstOk)
           /\ task.converts >= 1 =>
                 task.firstOk = convert_pinyin_to_zhuyin(task.pinyin).ok
           /\ task.pc = "prompt" => (task.prompts = 1 /\ task.converts = 1)
           /\ (task.prompts = 1 /\ task.pc # "prompt") =>
                 task.converts = IF task.failed = "readline" THEN 1 ELSE 2
           /\ task.prompts = 0 => task.converts <= 1
           /\ (task.prompts = 1 /\ task.result = "some") =>
                 \E line \in OperatorLines(task.pinyin) :
                     /\ convert_pinyin_to_zhuyin(line).ok
                     /\ task.zhuyin = convert_pinyin_to_zhuyin(line).val
           /\ task.failed \in {"conversion", "readline"} =>
                 /\ task.prompts = 1
                 /\ task.pc = "panicked"
                 /\ task.result = "panic"
                 /\ task.note = NoNote
                 /\ \A r \in requests : r.task = t => r.service # "tts"

\* one task got its card after the operator's correction, another failed at
\* the prompt, which ended without a line
C9_Witness ==
    /\ \E t \in Tasks : handles[t].prompts = 1 /\ handles[t].result = "some"
    /\ \E t \in Tasks : handles[t].failed = "readline" /\ handles[t].converts = 1

ZhuyinAtoms == {"zy_ni3", "zy_hao3", "zy_hao4", "zy_shu1",
                "zy_ni", "zy_hao", "zy_shu"}

PinyinAtoms == {"ni3", "hao3", "hao4", "shu1", "ni", "hao", "shu", "shu'"}

InNotation(reading, notation) ==
    IF notation = "Zhuyin"
    THEN /\ \E i \in 1..Len(reading) : reading[i] \in ZhuyinAtoms
         /\ \A i \in 1..Len(reading) : reading[i] \notin PinyinAtoms
    ELSE /\ \E i \in 1..Len(reading) : reading[i] \in PinyinAtoms
         /\ \A i \in 1..Len(reading) : reading[i] \notin ZhuyinAtoms

\* C10: the reading of every card, word or sentence, is in the notation the
\* configuration names.
C10_ReadingInConfiguredNotation ==
    \A t \in Tasks :
        handles[t].result = "some" =>
            InNotation(handles[t].note.reading, config)

IsStarToken(token) == token.text = <<Star>>

\* the number of delimiter tokens among the first i tokens
StarsUpTo(tokens, i) == Cardinality({j \in 1..i : IsStarToken(tokens[j])})

\* the markup atoms of a rendered text, in order
MarkupOf(text) == SelectSeq(text, LAMBDA a : a \in {SpanOpen, SpanClose})

CountOf(text, a) == Cardinality({i \in 1..Len(text) : text[i] = a})

\* what the i-th token is rendered as, by the parity of its occurrence
ExpectedPiece(tokens, i) ==
    IF IsStarToken(tokens[i])
    THEN IF StarsUpTo(tokens, i) % 2 = 1 THEN <<SpanOpen>> ELSE <<SpanClose>>
    ELSE tokens[i].text

\* C11: build_note_sentence renders the odd-numbered delimiter tokens as the
\* opening span, the even-numbered ones as the closing tag and every other
\* token as its text; with k delimiters the markup alternates, starting with
\* an opening span, so it has k/2 of each when k is even and one more opening
\* span, left open, when k is odd.
C11_ToggleRendering ==
    tokPc = "rendered" =>
        LET tokens == tokOut.tokens
            k == StarsUpTo(tokens, Len(tokens))
            markup == MarkupOf(tokRendered.note)
        IN /\ tokRendered.note =
                 Concat([i \in 1..Len(tokens) |-> ExpectedPiece(tokens, i)])
           /\ Len(markup) = k
           /\ \A i \in 1..k :
                 markup[i] = IF i % 2 = 1 THEN SpanOpen ELSE SpanClose
           /\ CountOf(tokRendered.note, SpanClose) = k \div 2
           /\ CountOf(tokRendered.note, SpanOpen) = k - (k \div 2)

\* a word between two delimiters, then a third delimiter that opens a span
\* nothing closes
C11_Witness ==
    /\ tokPc = "rendered"
    /\ Len(tokOut.tokens) = 4
    /\ IsStarToken(tokOut.tokens[1])
    /\ IsWordToken(tokOut.tokens[2])
    /\ IsStarToken(tokOut.tokens[3])
    /\ IsStarToken(tokOut.tokens[4])
    /\ tokRendered.note = <<SpanOpen>> \o tokOut.tokens[2].text
                          \o <<SpanClose, SpanOpen>>

\* the rows as main tokenises them: the segmenter is the dictionary's
FromTokeniseSentence == tokOut.tokens = tokenise_sentence(tokInput)

\* a rendered text character by character
Spelled(text) == Concat([i \in 1..Len(text) |-> CharsOf(text[i])])

\* the characters of run occur in text, one after the other
ContainsRun(text, run) ==
    \E i \in 1..(Len(text) - Len(run) + 1) :
        SubSeq(text, i, i + Len(run) - 1) = run

\* C12 as stated: the plain rendering of the tokens tokenise_sentence
\* produces for an input string contains neither the delimiter '*' nor the
\* opening span nor the closing tag.
C12_PlainHasNoDelimiterNorMarkup ==
    (tokPc = "rendered" /\ FromTokeniseSentence) =>
        LET plain == Spelled(tokRendered.plain)
        IN /\ ~ContainsRun(plain, <<Star>>)
           /\ ~ContainsRun(plain, CharsOf(SpanOpen))
           /\ ~ContainsRun(plain, CharsOf(SpanClose))

\* C12: the plain rendering of the tokens tokenise_sentence produces for an
\* input string is the input with every delimiter '*' deleted and nothing
\* else changed: it never contains '*', and build_plain_sentence puts no tag
\* into it, so it spells a tag only where the characters of the input that
\* remain spell one.
C12_PlainIsInputWithoutDelimiters ==
    (tokPc = "rendered" /\ FromTokeniseSentence) =>
        /\ tokRendered.plain = SelectSeq(tokInput, LAMBDA c : c # Star)
        /\ \A i \in 1..Len(tokRendered.plain) :
              tokRendered.plain[i] \notin {Star, SpanOpen, SpanClose}
        /\ ~ContainsRun(Spelled(tokRendered.plain), <<Star>>)
        /\ \A tag \in {SpanOpen, SpanClose} :
              ContainsRun(Spelled(tokRendered.plain), CharsOf(tag))
                  => ContainsRun(SelectSeq(tokInput, LAMBDA c : c # Star),
                                 CharsOf(tag))

\* a sentence with a word inside a pair of delimiters and a word outside
C12_Witness ==
    /\ tokPc = "rendered"
    /\ FromTokeniseSentence
    /\ tokInput = <<Star, "N", Star, "H">>
    /\ tokRendered.plain = <<"N", "H">>
    /\ tokRendered.note = <<SpanOpen, "N", SpanClose, "H">>
    /\ Spelled(tokRendered.plain) = tokRendered.plain

\* the segments of a text between its commas
RECURSIVE SegmentsOf(_)
SegmentsOf(text) ==
    LET commas == {i \in 1..Len(text) : text[i] = ","}
    IN IF commas = {} THEN <<text>>
       ELSE LET first == CHOOSE i \in commas : \A j \in commas : i <= j
            IN <<SubSeq(text, 1, first - 1)>>
               \o SegmentsOf(SubSeq(text, first + 1, Len(text)))

\* the syllables of an entry's phonetic-numbers field, in order
SyllablesOf(entry) == SelectSeq(entry.pinyin_numbers, LAMBDA a : a \in Syllables)

\* the segment a syllable is written as
SegmentFor(syllable) ==
    IF syllable = "ni3" THEN <<"zy_ni3">> ELSE <<syllable>>

\* C13 as stated: whatever number of entries the token matched, its reading
\* has exactly one comma-joined segment per syllable of the entry's
\* phonetic-numbers field, in order.
C13_OneSegmentPerSyllable ==
    wordPc = "done" =>
        \A k \in 1..Len(wordToken.word_entry.val) :
            LET syllables == SyllablesOf(wordToken.word_entry.val[k])
            IN /\ wordReading.some
               /\ SegmentsOf(wordReading.val) =
                      [i \in 1..Len(syllables) |-> SegmentFor(syllables[i])]

\* C13: the reading of a word token is, entry after entry, one comma-joined
\* segment per syllable of that entry's phonetic-numbers field, in order, a
\* syllable with no symbol form passed through unchanged; with entries of
\* N_1, ..., N_E syllables it has N_1 + ... + N_E segments, and exactly N
\* only when the token matched one entry of N syllables.
C13_SegmentsPerEntry ==
    wordPc = "done" =>
        LET entries == wordToken.word_entry.val
            syllables == Concat([k \in 1..Len(entries) |-> SyllablesOf(entries[k])])
        IN /\ wordReading.some
           /\ SegmentsOf(wordReading.val) =
                  [i \in 1..Len(syllables) |-> SegmentFor(syllables[i])]
           /\ Len(entries) = 1 =>
                  Len(SegmentsOf(wordReading.val)) = Len(SyllablesOf(entries[1]))

\* two entries of two syllables each, one syllable without a symbol form:
\* four segments
C13_Witness ==
    /\ wordPc = "done"
    /\ Len(wordToken.word_entry.val) = 2
    /\ wordToken.word_entry.val[1].pinyin_numbers = <<"ni3", " ", "xx5">>
    /\ wordToken.word_entry.val[2].pinyin_numbers = <<" ", "xx5", " ", "ni3", " ">>
    /\ wordReading = Some(<<"zy_ni3", ",", "xx5", ",", "xx5", ",", "zy_ni3">>)

\* no token of the row has a matched dictionary entry
NoMatchedEntry(task) ==
    \A i \in 1..Len(task.tokens) :
        ~task.tokens[i].word_entry.some \/ task.tokens[i].word_entry.val = <<>>

\* C14: the task of a row without any matched dictionary entry, word or
\* sentence, never calls a service, writes a file, opens the prompt or fails:
\* it stays at its start or has returned no card, and the batch never stops
\* at it.
C14_UnmatchedRowSkipped ==
    \A t \in Tasks :
        NoMatchedEntry(handles[t]) =>
            /\ handles[t].pc \in {"start", "done"}
            /\ handles[t].pc = "done" <=> handles[t].result = "none"
            /\ handles[t].result \in {"pending", "none"}
            /\ handles[t].failed = ""
            /\ handles[t].prompts = 0
            /\ \A r \in requests : r.task # t
            /\ \A f \in files : f.writer # t
            /\ handles[t].note = NoNote
            /\ mainPc = "panicked" => joinIdx # t

\* a batch with a sentence of delimiters only, a word the dictionary has no
\* entry for and a sentence of such a word: all three returned no card, and
\* the package holds the card of the word after them
C14_Witness ==
    /\ mainPc = "done"
    /\ package.written
    /\ Len(package.notes) = 1
    /\ Len(handles) = 4
    /\ handles[1].kind = "sentence" /\ handles[1].result = "none"
    /\ \A i \in 1..2 : ~handles[1].tokens[i].word_entry.some
    /\ handles[2].kind = "word" /\ handles[2].result = "none"
    /\ handles[2].tokens[1].word_entry = Some(<<>>)
    /\ handles[3].kind = "sentence" /\ handles[3].result = "none"
    /\ handles[3].tokens[1].word_entry = Some(<<>>)
    /\ handles[4].result = "some"
    /\ \A t \in 1..3 : NoMatchedEntry(handles[t])

\* the tasks main has started for the rows it has read
ExpectedKind(row) ==
    LET n == Len(tokenise_sentence(row.hanzi))
    IN IF n = 0 THEN "none" ELSE IF n = 1 THEN "word" ELSE "sentence"

StartedRows ==
    SelectSeq(SubSeq(batch, 1, rowIdx - 1),
              LAMBDA row : ExpectedKind(row) # "none")

\* C15: the tasks started are, in row order, exactly one per row read whose
\* token sequence is not empty: a word task when it has one token, a sentence
\* task when it has two or more, whatever the second column holds.
C15_ClassifiedByTokenCount ==
    /\ Len(handles) = Len(StartedRows)
    /\ \A t \in Tasks :
          /\ handles[t].kind = ExpectedKind(StartedRows[t])
          /\ handles[t].hanzi = StartedRows[t].hanzi
          /\ handles[t].override = StartedRows[t].definition
          /\ handles[t].tokens = tokenise_sentence(StartedRows[t].hanzi)

\* all five rows read: two sentences, a word with a definition in the second
\* column, a word without, and no task for the row without tokens although
\* it has a second column
C15_Witness ==
    /\ mainPc = "read"
    /\ rowIdx = 6
    /\ Len(batch) = 5
    /\ batch[3] = Row(<<>>, Some(<<"nothing">>))
    /\ Len(handles) = 4
    /\ handles[1].kind = "sentence" /\ Len(handles[1].tokens) = 2
    /\ handles[2].kind = "word" /\ handles[2].override.some
    /\ handles[3].kind = "sentence"
    /\ handles[4].kind = "word" /\ ~handles[4].override.some

\* the tokens are the characters of the input, one token each
SingleCharTokens ==
    /\ Len(tokOut.tokens) = Len(tokInput)
    /\ \A i \in 1..Len(tokInput) : tokOut.tokens[i].text = <<tokInput[i]>>

\* the last piece a renderer emits for a delimiter that follows a prefix
\* tells the flag it held after the prefix
ClosesSpan(rendered) == rendered[Len(rendered)] = SpanClose

\* C16: on a string and on the sequence of its single-character tokens,
\* build_note_reading and build_note_sentence give the same text, for the
\* whole string and for each of its prefixes, and after each prefix both
\* hold the same flag: a delimiter that follows is rendered alike.
C16_SameToggle ==
    (tokPc = "rendered" /\ SingleCharTokens) =>
        /\ tokRendered.reading = tokRendered.note
        /\ \A n \in 0..Len(tokInput) :
              LET prefix == SubSeq(tokInput, 1, n)
                  tokens == SubSeq(tokOut.tokens, 1, n)
              IN /\ build_note_reading(prefix) = build_note_sentence(tokens)
                 /\ ClosesSpan(build_note_reading(Append(prefix, Star)))
                      = ClosesSpan(build_note_sentence(
                                       Append(tokens, Token(<<Star>>, None))))
                 /\ ClosesSpan(build_note_reading(Append(prefix, Star)))
                      = (StarsUpTo(tokOut.tokens, n) % 2 = 1)

\* an empty span, a character and a span left open, character by character
C16_Witness ==
    /\ tokPc = "rendered"
    /\ SingleCharTokens
    /\ tokInput = <<Star, Star, "S", Star>>
    /\ tokRendered.reading = <<SpanOpen, SpanClose, "S", SpanOpen>>
    /\ tokRendered.note = tokRendered.reading

====
